---- MODULE Spec2Model ----
(***************************************************************************)
(* A model of defectio's in-memory cache (defectio/api/cache.py), of the   *)
(* event manager that turns gateway frames into cache mutations and        *)
(* dispatched events (defectio/api/event_manager.py) and of the gateway:   *)
(* its run loop, its receive loop, close and the methods that send         *)
(* (defectio/api/gateway.py).                                              *)
(*                                                                         *)
(* Python values are modelled as follows.  An entity is a record with an   *)
(* id field; a dict is a function whose domain is the set of its keys (the *)
(* keys are objects.Object values, which are strings); None is the record  *)
(* None; an exception is the name of its class.  Every statement of a      *)
(* method is executed as Python executes it: a call whose arguments do not *)
(* fit the signature of the callee in the source raises TypeError.         *)
(***************************************************************************)
EXTENDS Integers, Sequences, FiniteSets, TLC

VARIABLES
    components,   \* CacheSettings.components the cache was constructed with
    cache,        \* the six attributes of the MutableCache object
    call,         \* the last cache method the application called, with its argument
    ret,          \* how that call ended: the exception raised, the value returned
    has_cache,    \* whether the EventManager was constructed with a cache
    ws,           \* frames that arrived on the websocket and were not read yet
    arrived,      \* number of frames that arrived on the connection
    running,      \* frames whose handler was started and has not finished
    started,      \* arrival numbers of the frames, in the order their handler started
    finished,     \* arrival numbers of the frames, in the order their handler finished
    handled,      \* the frames whose handler finished, in that order
    dispatched,   \* calls of EventManager.dispatch, in order
    pc,           \* where Gateway.start is: not called, at one of its awaits, or over
    start_raised, \* the exception that ended Gateway.start, if one did
    _closing,     \* Gateway._closing, an asyncio.Event: whether it is set
    _closed,      \* Gateway._closed, an asyncio.Event: whether it is set
    _ws,          \* Gateway._ws: None, or the number of a connection in conns
    conns,        \* the client sessions start made and their websocket, in order
    backoff,      \* the ExponentialBackoff of start: how often delay() was called
    trace,        \* the calls of start and close, and the calls they made to aiohttp,
                  \* asyncio and the backoff, in order
    sent,         \* the frames handed to a websocket for sending, in order
    authenticated, \* the attribute Gateway.authenticated
    auth_events,  \* the frames _wait_for_auth read from the websocket, in order
    views,        \* the dicts the get_*_view methods returned to the application
    lookups,      \* the event-type strings a handler was looked up for, in order
    _live_attributes, \* the attribute RESTClient._live_attributes
    rest_calls    \* the calls of methods of the RESTClient that are over, in order

cacheVars == <<components, cache, call, ret>>
eventVars == <<has_cache, ws, arrived, running, started, finished, handled, dispatched>>
gatewayVars ==
    <<pc, start_raised, _closing, _closed, _ws, conns, backoff, trace, sent, authenticated>>
restVars == <<_live_attributes, rest_calls>>
vars == <<components, cache, call, ret, has_cache, ws, arrived, running, started,
          finished, handled, dispatched, pc, start_raised, _closing, _closed, _ws, conns,
          backoff, trace, sent, authenticated, auth_events, views, lookups,
          _live_attributes, rest_calls>>

----------------------------------------------------------------------------
(* Python values *)

None == [kind |-> "None"]
EmptyDict == <<>>
NoException == "no exception"

\* dict[k] = v
Put(d, k, v) == [x \in (DOMAIN d) \cup {k} |-> IF x = k THEN v ELSE d[x]]
\* dict.get(k, None)
Get(d, k) == IF k \in DOMAIN d THEN d[k] ELSE None
\* the dict left by dict.pop(k, None)
Remove(d, k) == [x \in (DOMAIN d) \ {k} |-> d[x]]

\* objects.Object(entity): str(entity) is Unique.__str__, the entity's id
Object(entity) == entity.id

\* Object.created_at: the time an identity was made, which its leading
\* characters encode
created_at == [m1 |-> 1, m2 |-> 2, m3 |-> 3]

\* str(): the empty string
EmptyStr == ""

\* dict.get(key) where the values are strings: the str, or None for a
\* missing key
get(d, key) == IF key \in DOMAIN d THEN [kind |-> "str", value |-> d[key]] ELSE None

----------------------------------------------------------------------------
(* The entities and identities the application and the gateway use *)

max_messages == 2

UserIds == {"u1"}
ChannelIds == {"c1"}
ServerIds == {"s1"}
MessageIds == {"m1", "m2", "m3"}
MemberUserIds == {"u1", "u2"}
Names == {"n1", "n2"}

OwnUsers == {[id |-> "u0", name |-> n] : n \in Names}
Users == {[id |-> i, name |-> n] : i \in UserIds, n \in Names}
Channels == {[id |-> i, name |-> n] : i \in ChannelIds, n \in Names}
Servers == {[id |-> i, name |-> n] : i \in ServerIds, n \in Names}
\* a member of server id (Member.id) for user user_id
Members == {[id |-> i, user_id |-> u] : i \in ServerIds, u \in MemberUserIds}
Messages == {[id |-> "m1", content |-> n] : n \in Names}
              \cup {[id |-> i, content |-> "n1"] : i \in MessageIds}

CacheComponents == {"NONE", "ALL"}

----------------------------------------------------------------------------
(* defectio/api/cache.py: Cache *)

_create_cache ==
    [me |-> EmptyDict, users |-> EmptyDict, channels |-> EmptyDict,
     servers |-> EmptyDict, members |-> EmptyDict, messages |-> EmptyDict]

get_me(c) == c.me
get_user(c, user) == Get(c.users, user)
get_users_view(c) == c.users
get_channel(c, channel) == Get(c.channels, channel)
get_channel_view(c) == c.channels
get_server(c, server) == Get(c.servers, server)
get_servers_view(c) == c.servers
get_member(c, server, user) == Get(c.members, EmptyStr)
get_members_view(c) == c.members
get_message(c, message) == Get(c.messages, message)
get_messages_view(c) == c.messages

----------------------------------------------------------------------------
(* defectio/api/cache.py: MutableCache.  Each method is an operator from   *)
(* the cache before the call to the cache after it, the exception raised   *)
(* and the value returned.  The argument of a delete_ method is the key    *)
(* objects.Object(argument); the argument of the other methods is an       *)
(* entity.                                                                 *)

Returns(c, v) == [cache |-> c, raised |-> NoException, value |-> v]
Raises(c, e) == [cache |-> c, raised |-> e, value |-> None]

\* tuple(a, b): tuple() takes at most one argument
tuple(c, a, b) == Raises(c, "TypeError")
\* copy.copy(x), where copy is the function imported by "from copy import copy"
copy_copy(c, x) == Raises(c, "AttributeError")

\* a clear that leaves the users
clear_but_users(c) == Returns([_create_cache EXCEPT !.users = c.users], None)
clear(c) == Returns(_create_cache, None)

clear_me(c) == copy_copy(c, c.me)
set_me(c, user) == Returns([c EXCEPT !.me = user], None)
update_me(c, user) == copy_copy(c, c.me)

clear_users(c) == copy_copy(c, c.users)
delete_user(c, user) ==
    Returns([c EXCEPT !.users = Remove(@, user)], Get(c.users, user))
set_user(c, user) == Returns([c EXCEPT !.users = Put(@, Object(user), user)], None)
update_user(c, user) ==
    LET old_user == Get(c.users, Object(user))
        c2 == [c EXCEPT !.users = Put(@, Object(user), user)]
    IN  tuple(c2, old_user, c2.users[Object(user)])

clear_channels(c) ==
    Returns([c EXCEPT !.channels = EmptyDict],
            [kind |-> "tuple", first |-> c.channels, second |-> EmptyDict])
delete_channel(c, channel) ==
    Returns([c EXCEPT !.channels = Remove(@, channel)], Get(c.channels, channel))
set_channel(c, channel) ==
    Returns([c EXCEPT !.channels = Put(@, Object(channel), channel)], None)
update_channel(c, channel) ==
    LET old_channel == Get(c.channels, Object(channel))
        c2 == [c EXCEPT !.channels = Put(@, Object(channel), channel)]
    IN  tuple(c2, old_channel, c2.channels[Object(channel)])

clear_servers(c) == Returns([c EXCEPT !.servers = EmptyDict], c.servers)
delete_server(c, server) ==
    Returns([c EXCEPT !.servers = Remove(@, server)], Get(c.servers, server))
set_server(c, server) ==
    Returns([c EXCEPT !.servers = Put(@, Object(server), server)], None)
update_server(c, server) ==
    LET old_server == Get(c.servers, Object(server))
        c2 == [c EXCEPT !.servers = Put(@, Object(server), server)]
    IN  tuple(c2, old_server, c2.servers[Object(server)])

clear_members(c) == Returns([c EXCEPT !.members = EmptyDict], c.members)
delete_member(c, member) ==
    Returns([c EXCEPT !.members = Remove(@, member)], Get(c.members, member))
set_member(c, member) ==
    Returns([c EXCEPT !.members = Put(@, Object(member), member)], None)
update_member(c, member) ==
    LET old_member == Get(c.members, Object(member))
        c2 == [c EXCEPT !.members = Put(@, Object(member), member)]
    IN  tuple(c2, old_member, c2.members[Object(member)])

clear_messages(c) == Returns([c EXCEPT !.messages = EmptyDict], c.messages)
\* a delete_message that leaves no message behind
delete_message_and_others(c, message) ==
    Returns([c EXCEPT !.messages = EmptyDict], Get(c.messages, message))
delete_message(c, message) ==
    Returns([c EXCEPT !.messages = Remove(@, message)], Get(c.messages, message))
\* a set_message that makes room before it stores, also for a message
\* that is cached already
set_message_evicting(c, message) ==
    LET oldest == CHOOSE k \in DOMAIN c.messages :
                      \A j \in DOMAIN c.messages : created_at[k] <= created_at[j]
        room == IF Cardinality(DOMAIN c.messages) >= max_messages
                THEN Remove(c.messages, oldest) ELSE c.messages
    IN  Returns([c EXCEPT !.messages = Put(room, Object(message), message)], None)
set_message(c, message) ==
    Returns([c EXCEPT !.messages = Put(@, Object(message), message)], None)
update_message(c, message) ==
    LET old_message == Get(c.messages, Object(message))
        c2 == [c EXCEPT !.messages = Put(@, Object(message), message)]
    IN  tuple(c2, old_message, c2.messages[Object(message)])

----------------------------------------------------------------------------
(* A get_*_view method returns the dict the attribute refers to, not a     *)
(* copy of it.  A view is that dict as the application holds it: the       *)
(* attribute it was read from, its items when it was returned, its items   *)
(* now, and whether the attribute still refers to it.                      *)

MaxViews == 2

View(attr, d) == [attr |-> attr, returned |-> d, items |-> d, attached |-> TRUE]

\* The attributes a method assigns a new dict to.  Every other method
\* changes the dict of its attribute in place (d[k] = v, d.pop(k)).
\* clear_me and clear_users raise before their assignment.
Rebinds(op) ==
    CASE op = "clear" -> {"users", "channels", "servers", "members", "messages"}
      [] op = "clear_channels" -> {"channels"}
      [] op = "clear_servers" -> {"servers"}
      [] op = "clear_members" -> {"members"}
      [] op = "clear_messages" -> {"messages"}
      [] OTHER -> {}

\* the views after method op left the cache as c
Aliased(vs, op, c) ==
    [i \in DOMAIN vs |->
        IF ~vs[i].attached THEN vs[i]
        ELSE IF vs[i].attr \in Rebinds(op) THEN [vs[i] EXCEPT !.attached = FALSE]
        ELSE [vs[i] EXCEPT !.items = c[vs[i].attr]]]

----------------------------------------------------------------------------
(* The application calls the cache.  Call(op, arg, r) is a call of method  *)
(* op with argument arg that ended as r.                                   *)

Call(op, arg, r) ==
    /\ cache' = r.cache
    /\ call' = [op |-> op, arg |-> arg]
    /\ ret' = [raised |-> r.raised, value |-> r.value]
    /\ views' = Aliased(views, op, r.cache)
    /\ UNCHANGED <<restVars, lookups, auth_events>>
    /\ UNCHANGED <<components, has_cache, ws, arrived, running, started, finished,
                   handled, dispatched>>
    /\ UNCHANGED gatewayVars

Call_clear == Call("clear", None, clear(cache))
Call_clear_me == Call("clear_me", None, clear_me(cache))
Call_set_me == \E user \in OwnUsers : Call("set_me", user, set_me(cache, user))
Call_update_me == \E user \in OwnUsers : Call("update_me", user, update_me(cache, user))

Call_clear_users == Call("clear_users", None, clear_users(cache))
Call_delete_user == \E user \in UserIds : Call("delete_user", user, delete_user(cache, user))
Call_set_user == \E user \in Users : Call("set_user", user, set_user(cache, user))
Call_update_user == \E user \in Users : Call("update_user", user, update_user(cache, user))

Call_clear_channels == Call("clear_channels", None, clear_channels(cache))
Call_delete_channel ==
    \E channel \in ChannelIds : Call("delete_channel", channel, delete_channel(cache, channel))
Call_set_channel ==
    \E channel \in Channels : Call("set_channel", channel, set_channel(cache, channel))
Call_update_channel ==
    \E channel \in Channels : Call("update_channel", channel, update_channel(cache, channel))

Call_clear_servers == Call("clear_servers", None, clear_servers(cache))
Call_delete_server ==
    \E server \in ServerIds : Call("delete_server", server, delete_server(cache, server))
Call_set_server == \E server \in Servers : Call("set_server", server, set_server(cache, server))
Call_update_server ==
    \E server \in Servers : Call("update_server", server, update_server(cache, server))

Call_clear_members == Call("clear_members", None, clear_members(cache))
Call_delete_member ==
    \E member \in ServerIds : Call("delete_member", member, delete_member(cache, member))
Call_set_member == \E member \in Members : Call("set_member", member, set_member(cache, member))
Call_update_member ==
    \E member \in Members : Call("update_member", member, update_member(cache, member))

Call_clear_messages == Call("clear_messages", None, clear_messages(cache))
Call_delete_message ==
    \E message \in MessageIds : Call("delete_message", message, delete_message(cache, message))
Call_set_message ==
    \E message \in Messages : Call("set_message", message, set_message(cache, message))
Call_update_message ==
    \E message \in Messages : Call("update_message", message, update_message(cache, message))

\* The application calls a get_*_view method and keeps what it returns.
Call_get_view ==
    \E attr \in {"users", "channels", "servers", "members", "messages"} :
        LET view == CASE attr = "users" -> get_users_view(cache)
                      [] attr = "channels" -> get_channel_view(cache)
                      [] attr = "servers" -> get_servers_view(cache)
                      [] attr = "members" -> get_members_view(cache)
                      [] attr = "messages" -> get_messages_view(cache)
        IN  /\ Len(views) < MaxViews
            /\ views' = Append(views, View(attr, view))
            /\ call' = [op |-> "get_view", arg |-> attr]
            /\ ret' = [raised |-> NoException, value |-> view]
            /\ UNCHANGED <<restVars, lookups, auth_events, components, cache, eventVars,
                           gatewayVars>>

\* Cache.__init__: the settings are kept and the collections created
Cache__init__ ==
    /\ components \in CacheComponents
    /\ cache = _create_cache

\* Gateway.__init__, which does not assign the attribute authenticated; no
\* method of the Gateway was called yet
Gateway__init__ ==
    /\ _closing = FALSE
    /\ _closed = FALSE
    /\ _ws = None
    /\ authenticated = "unset"
    /\ pc = "idle"
    /\ start_raised = NoException
    /\ conns = <<>>
    /\ backoff = 0
    /\ trace = <<>>
    /\ sent = <<>>

\* RESTClient.__init__, which does not assign the attribute
\* _live_attributes (the assignment is a comment); no method of the
\* RESTClient was called yet
RESTClient__init__ ==
    /\ _live_attributes = "unset"
    /\ rest_calls = <<>>

\* nothing was asked of the cache, of the event manager or of the handshake
Idle ==
    /\ views = <<>>
    /\ lookups = <<>>
    /\ auth_events = <<>>

InitEventsIdle ==
    /\ RESTClient__init__
    /\ Idle
    /\ has_cache = TRUE
    /\ ws = <<>>
    /\ arrived = 0
    /\ running = <<>>
    /\ started = <<>>
    /\ finished = <<>>
    /\ handled = <<>>
    /\ dispatched = <<>>

InitCache ==
    /\ Cache__init__
    /\ call = [op |-> "__init__", arg |-> None]
    /\ ret = [raised |-> NoException, value |-> None]
    /\ InitEventsIdle
    /\ Gateway__init__

NextCache ==
    \/ Call_clear
    \/ Call_clear_me
    \/ Call_set_me
    \/ Call_update_me
    \/ Call_clear_users
    \/ Call_delete_user
    \/ Call_set_user
    \/ Call_update_user
    \/ Call_clear_channels
    \/ Call_delete_channel
    \/ Call_set_channel
    \/ Call_update_channel
    \/ Call_clear_servers
    \/ Call_delete_server
    \/ Call_set_server
    \/ Call_update_server
    \/ Call_clear_members
    \/ Call_delete_member
    \/ Call_set_member
    \/ Call_update_member
    \/ Call_clear_messages
    \/ Call_delete_message
    \/ Call_set_message
    \/ Call_update_message

SpecCache == InitCache /\ [][NextCache]_vars

\* The application reads views while the cache is set, updated, deleted
\* from and cleared.
NextViews ==
    \/ Call_get_view
    \/ Call_clear
    \/ Call_set_user
    \/ Call_update_user
    \/ Call_delete_user
    \/ Call_set_server
    \/ Call_clear_servers

SpecViews == InitCache /\ [][NextViews]_vars

----------------------------------------------------------------------------
(* Strings as Python sees them: the characters of the event-type strings   *)
(* of the wire protocol and of the names of the parse_ methods.            *)

Chars ==
    [Ready |-> <<"R", "e", "a", "d", "y">>,
     Message |-> <<"M", "e", "s", "s", "a", "g", "e">>,
     ChannelCreate |-> <<"C", "h", "a", "n", "n", "e", "l", "C", "r", "e", "a", "t", "e">>,
     ChannelDelete |-> <<"C", "h", "a", "n", "n", "e", "l", "D", "e", "l", "e", "t", "e">>,
     ServerDelete |-> <<"S", "e", "r", "v", "e", "r", "D", "e", "l", "e", "t", "e">>,
     ServerMemberJoin |-> <<"S", "e", "r", "v", "e", "r", "M", "e", "m", "b", "e", "r", "J", "o", "i", "n">>,
     ServerMemberLeave |-> <<"S", "e", "r", "v", "e", "r", "M", "e", "m", "b", "e", "r", "L", "e", "a", "v", "e">>,
     ServerMemberUpdate |-> <<"S", "e", "r", "v", "e", "r", "M", "e", "m", "b", "e", "r", "U", "p", "d", "a", "t", "e">>,
     Pong |-> <<"P", "o", "n", "g">>,
     ready |-> <<"r", "e", "a", "d", "y">>,
     message |-> <<"m", "e", "s", "s", "a", "g", "e">>,
     channel_create |-> <<"c", "h", "a", "n", "n", "e", "l", "_", "c", "r", "e", "a", "t", "e">>,
     channel_delete |-> <<"c", "h", "a", "n", "n", "e", "l", "_", "d", "e", "l", "e", "t", "e">>,
     server_delete |-> <<"s", "e", "r", "v", "e", "r", "_", "d", "e", "l", "e", "t", "e">>,
     server_member_join |-> <<"s", "e", "r", "v", "e", "r", "_", "m", "e", "m", "b", "e", "r", "_", "j", "o", "i", "n">>,
     server_member_leave |-> <<"s", "e", "r", "v", "e", "r", "_", "m", "e", "m", "b", "e", "r", "_", "l", "e", "a", "v", "e">>,
     server_member_update |-> <<"s", "e", "r", "v", "e", "r", "_", "m", "e", "m", "b", "e", "r", "_", "u", "p", "d", "a", "t", "e">>,
     Authenticated |-> <<"A", "u", "t", "h", "e", "n", "t", "i", "c", "a", "t", "e", "d">>,
     Error |-> <<"E", "r", "r", "o", "r">>,
     MessageUpdate |-> <<"M", "e", "s", "s", "a", "g", "e", "U", "p", "d", "a", "t", "e">>,
     MessageDelete |-> <<"M", "e", "s", "s", "a", "g", "e", "D", "e", "l", "e", "t", "e">>,
     ChannelUpdate |-> <<"C", "h", "a", "n", "n", "e", "l", "U", "p", "d", "a", "t", "e">>,
     ChannelGroupJoin |-> <<"C", "h", "a", "n", "n", "e", "l", "G", "r", "o", "u", "p", "J", "o", "i", "n">>,
     ChannelGroupLeave |-> <<"C", "h", "a", "n", "n", "e", "l", "G", "r", "o", "u", "p", "L", "e", "a", "v", "e">>,
     ChannelStartTyping |-> <<"C", "h", "a", "n", "n", "e", "l", "S", "t", "a", "r", "t", "T", "y", "p", "i", "n", "g">>,
     ChannelStopTyping |-> <<"C", "h", "a", "n", "n", "e", "l", "S", "t", "o", "p", "T", "y", "p", "i", "n", "g">>,
     ChannelAck |-> <<"C", "h", "a", "n", "n", "e", "l", "A", "c", "k">>,
     ServerUpdate |-> <<"S", "e", "r", "v", "e", "r", "U", "p", "d", "a", "t", "e">>,
     ServerRoleUpdate |-> <<"S", "e", "r", "v", "e", "r", "R", "o", "l", "e", "U", "p", "d", "a", "t", "e">>,
     ServerRoleDelete |-> <<"S", "e", "r", "v", "e", "r", "R", "o", "l", "e", "D", "e", "l", "e", "t", "e">>,
     UserUpdate |-> <<"U", "s", "e", "r", "U", "p", "d", "a", "t", "e">>,
     UserRelationship |-> <<"U", "s", "e", "r", "R", "e", "l", "a", "t", "i", "o", "n", "s", "h", "i", "p">>,
     message_update |-> <<"m", "e", "s", "s", "a", "g", "e", "_", "u", "p", "d", "a", "t", "e">>,
     message_delete |-> <<"m", "e", "s", "s", "a", "g", "e", "_", "d", "e", "l", "e", "t", "e">>,
     channel_update |-> <<"c", "h", "a", "n", "n", "e", "l", "_", "u", "p", "d", "a", "t", "e">>,
     channel_group_join |-> <<"c", "h", "a", "n", "n", "e", "l", "_", "g", "r", "o", "u", "p", "_", "j", "o", "i", "n">>,
     channel_group_leave |-> <<"c", "h", "a", "n", "n", "e", "l", "_", "g", "r", "o", "u", "p", "_", "l", "e", "a", "v", "e">>,
     channel_start_typing |-> <<"c", "h", "a", "n", "n", "e", "l", "_", "s", "t", "a", "r", "t", "_", "t", "y", "p", "i", "n", "g">>,
     channel_stop_typing |-> <<"c", "h", "a", "n", "n", "e", "l", "_", "s", "t", "o", "p", "_", "t", "y", "p", "i", "n", "g">>,
     channel_ack |-> <<"c", "h", "a", "n", "n", "e", "l", "_", "a", "c", "k">>,
     server_update |-> <<"s", "e", "r", "v", "e", "r", "_", "u", "p", "d", "a", "t", "e">>,
     server_role_update |-> <<"s", "e", "r", "v", "e", "r", "_", "r", "o", "l", "e", "_", "u", "p", "d", "a", "t", "e">>,
     server_role_delete |-> <<"s", "e", "r", "v", "e", "r", "_", "r", "o", "l", "e", "_", "d", "e", "l", "e", "t", "e">>,
     user_update |-> <<"u", "s", "e", "r", "_", "u", "p", "d", "a", "t", "e">>,
     user_relationship |-> <<"u", "s", "e", "r", "_", "r", "e", "l", "a", "t", "i", "o", "n", "s", "h", "i", "p">>]

\* the event-type strings of the payloads of types/websocket.py, and "Error",
\* which _wait_for_auth reads
WireTypes ==
    {"Authenticated", "Error", "Pong", "Ready", "Message",
     "MessageUpdate", "MessageDelete", "ChannelCreate", "ChannelUpdate", "ChannelDelete",
     "ChannelGroupJoin", "ChannelGroupLeave", "ChannelStartTyping", "ChannelStopTyping", "ChannelAck",
     "ServerUpdate", "ServerDelete", "ServerMemberJoin", "ServerMemberLeave", "ServerMemberUpdate",
     "ServerRoleUpdate", "ServerRoleDelete", "UserUpdate", "UserRelationship"}

UpperCase == {"A", "B", "C", "D", "E", "F", "G", "H", "I", "J", "K", "L", "M", "N", "O", "P", "Q", "R", "S", "T", "U", "V", "W", "X", "Y", "Z"}
ToLower ==
    [A |-> "a", B |-> "b", C |-> "c", D |-> "d", E |-> "e", F |-> "f", G |-> "g", H |-> "h", I |-> "i", J |-> "j", K |-> "k", L |-> "l", M |-> "m", N |-> "n", O |-> "o", P |-> "p", Q |-> "q", R |-> "r", S |-> "s", T |-> "t", U |-> "u", V |-> "v", W |-> "w", X |-> "x", Y |-> "y", Z |-> "z"]

\* a lower() that leaves the case of a character as it is
keep_case(ch) == ch
\* str.lower() of one character
lower(ch) == IF ch \in UpperCase THEN ToLower[ch] ELSE ch

\* re.compile(r"(?<!^)(?=[A-Z])").sub("_", name).lower(), from position i on
RECURSIVE _convert_pattern_sub_lower(_, _)
_convert_pattern_sub_lower(name, i) ==
    IF i > Len(name) THEN <<>>
    ELSE (IF i > 1 /\ name[i] \in UpperCase THEN <<"_">> ELSE <<>>)
         \o <<lower(name[i])>> \o _convert_pattern_sub_lower(name, i + 1)

----------------------------------------------------------------------------
(* The models the event manager constructs.  A constructor is an operator  *)
(* to the exception raised and the entity made.                            *)

Made(entity) == [raised |-> NoException, value |-> entity]
NotMade(e) == [raised |-> e, value |-> None]

\* attrs classes whose fields are the keywords the event manager passes
User(id, name) == Made([id |-> id, name |-> name])
Server(id, name) == Made([id |-> id, name |-> name])
\* Status(presence=..., text=...): text is a str or None
Status(text) == [text |-> text]
\* User(..., status=Status(...) if "status" in payload_user else None, ...):
\* a user whose status is None is a user without the field status
UserOf(payload_user) ==
    IF "status" \in DOMAIN payload_user
    THEN Made([id |-> payload_user._id, name |-> payload_user.username,
               status |-> Status(get(payload_user.status, "text"))])
    ELSE User(payload_user._id, payload_user.username)
\* GroupChannel.__init__(self, data, state) is called without state
GroupChannel(payload) == NotMade("TypeError")
Message(id, content) == Made([id |-> id, content |-> content])
\* Member.__init__(self, data, state) has no keyword app, id or user_id
Member(id, user_id) == NotMade("TypeError")
\* PartialChannel.__init__(self, data, state) is called without state
PartialChannel(payload) == NotMade("TypeError")
\* SavedMessageChannel.__init__(self, data, state) has no keyword app or id
SavedMessageChannel(id) == NotMade("TypeError")
\* TextChannel.__init__(self, *, state, server, data) has no keyword app, id, ...
TextChannel(id, name) == NotMade("TypeError")

\* MutableCache does not define set_server_channel: the abstract method of
\* the base class returns None, which cannot be awaited
set_server_channel(c, channel) == Raises(c, "TypeError")

\* a local variable that was not assigned yet
Unbound == [kind |-> "unbound"]

----------------------------------------------------------------------------
(* defectio/api/event_manager.py: the parse_ methods.  Each is an operator *)
(* from the cache and the payload to the cache after it, the exception it  *)
(* raised and the calls of dispatch it made before that.  cached is the    *)
(* truth value of self._cache.                                             *)

Parsed(c, emitted) == [cache |-> c, raised |-> NoException, emitted |-> emitted]
Failed(c, e, emitted) == [cache |-> c, raised |-> e, emitted |-> emitted]
\* a call of self.dispatch(name, *args), made when the cache was c
Event(c, name, args) == [name |-> name, raw |-> FALSE, args |-> args, cache |-> c]
RawEvent(c, name, raw_event) ==
    [name |-> name, raw |-> TRUE, args |-> <<raw_event>>, cache |-> c]

\* for payload_user in payload["users"]: ... set_user(user), from position i on
RECURSIVE ready_users(_, _, _)
ready_users(c, users, i) ==
    IF i > Len(users) THEN Returns(c, None)
    ELSE LET user == UserOf(users[i])
         IN  IF user.raised # NoException THEN Raises(c, user.raised)
             ELSE ready_users(set_user(c, user.value).cache, users, i + 1)

\* for payload_server in payload["servers"]: ... set_server(server)
RECURSIVE ready_servers(_, _, _)
ready_servers(c, servers, i) ==
    IF i > Len(servers) THEN Returns(c, None)
    ELSE LET server == Server(servers[i]._id, servers[i].name)
         IN  IF server.raised # NoException THEN Raises(c, server.raised)
             ELSE ready_servers(set_server(c, server.value).cache, servers, i + 1)

\* for payload_channel in payload["channels"]: ... set_channel(channel);
\* channel is the local variable as the earlier iterations left it
RECURSIVE ready_channels(_, _, _, _)
ready_channels(c, channels, i, channel) ==
    IF i > Len(channels) THEN Returns(c, None)
    ELSE LET payload_channel == channels[i]
             made == IF payload_channel.channel_type
                          \in {"SavedMessage", "DirectMessage", "Group", "VoiceChannel"}
                     THEN SavedMessageChannel(payload_channel._id)
                     ELSE IF payload_channel.channel_type = "TextChannel"
                     THEN TextChannel(payload_channel._id, payload_channel.name)
                     ELSE Made(channel)
         IN  IF made.raised # NoException THEN Raises(c, made.raised)
             ELSE IF made.value = Unbound THEN Raises(c, "UnboundLocalError")
             ELSE ready_channels(set_channel(c, made.value).cache, channels, i + 1,
                                 made.value)

parse_ready(c, cached, payload) ==
    IF ~cached THEN Parsed(c, <<Event(c, "ready", <<>>)>>)
    ELSE LET u == ready_users(c, payload.users, 1)
             s == ready_servers(u.cache, payload.servers, 1)
             ch == ready_channels(s.cache, payload.channels, 1, Unbound)
         IN  IF u.raised # NoException THEN Failed(u.cache, u.raised, <<>>)
             ELSE IF s.raised # NoException THEN Failed(s.cache, s.raised, <<>>)
             ELSE IF ch.raised # NoException THEN Failed(ch.cache, ch.raised, <<>>)
             ELSE Parsed(ch.cache, <<Event(ch.cache, "ready", <<>>)>>)

parse_message(c, cached, payload) ==
    LET message == Message(payload._id, payload.content)
        c2 == IF cached THEN set_message(c, message.value).cache ELSE c
    IN  IF message.raised # NoException THEN Failed(c, message.raised, <<>>)
        ELSE Parsed(c2, <<Event(c2, "message", <<message.value>>)>>)

parse_channel_create(c, cached, payload) ==
    LET channel == PartialChannel(payload)
        set == IF cached THEN set_server_channel(c, channel.value) ELSE Returns(c, None)
    IN  IF channel.raised # NoException THEN Failed(c, channel.raised, <<>>)
        ELSE IF set.raised # NoException THEN Failed(set.cache, set.raised, <<>>)
        ELSE Parsed(set.cache, <<Event(set.cache, "channel_create", <<channel.value>>)>>)

\* payload["_id"] of a payload without that key raises KeyError;
\* MutableCache does not define get_server_channel: the abstract method of
\* the base class returns None, which cannot be awaited
get_server_channel(c, channel) == Raises(c, "TypeError")

parse_channel_delete(c, cached, payload) ==
    IF ~cached THEN Parsed(c, <<>>)
    ELSE IF "_id" \notin DOMAIN payload THEN Failed(c, "KeyError", <<>>)
    ELSE LET channel == get_server_channel(c, payload._id)
         IN  Failed(channel.cache, channel.raised, <<>>)

parse_server_delete(c, cached, payload) ==
    IF ~cached THEN Parsed(c, <<>>)
    ELSE IF "_id" \notin DOMAIN payload THEN Failed(c, "KeyError", <<>>)
    ELSE LET server == get_server(c, payload._id)
         IN  IF server = None THEN Parsed(c, <<>>)
             ELSE Parsed(delete_server(c, Object(server)).cache,
                         <<Event(c, "server_delete", <<server>>)>>)

parse_server_member_join(c, cached, payload) ==
    LET member == Member(payload.id, payload.user)
        c2 == IF cached THEN set_member(c, member.value).cache ELSE c
    IN  IF member.raised # NoException THEN Failed(c, member.raised, <<>>)
        ELSE Parsed(c2, <<Event(c2, "server_member_join", <<member.value>>)>>)

parse_server_member_leave(c, cached, payload) ==
    IF ~cached THEN Parsed(c, <<>>)
    ELSE LET member == get_member(c, payload.id, payload.user)
         IN  IF member = None THEN Parsed(c, <<>>)
             ELSE Parsed(delete_member(c, Object(member)).cache,
                         <<Event(c, "server_member_leave", <<member>>)>>)

parse_server_member_update(c, cached, payload) == Parsed(c, <<>>)

\* the bodies of these are comments and "pass"
parse_message_update(c, cached, payload) == Parsed(c, <<>>)
parse_message_delete(c, cached, payload) == Parsed(c, <<>>)
parse_server_update(c, cached, payload) == Parsed(c, <<>>)

parse_channel_update(c, cached, payload) ==
    IF ~cached THEN Parsed(c, <<>>)
    ELSE IF "_id" \notin DOMAIN payload THEN Failed(c, "KeyError", <<>>)
    ELSE LET channel == get_server_channel(c, payload._id)
         IN  Failed(channel.cache, channel.raised, <<>>)

parse_channel_group_join(c, cached, payload) ==
    LET channel_group == GroupChannel(payload)
    IN  IF channel_group.raised # NoException THEN Failed(c, channel_group.raised, <<>>)
        ELSE Parsed(c, <<Event(c, "channel_group_join", <<channel_group.value>>)>>)

\* these dispatch the name of the event and nothing else
parse_channel_group_leave(c, cached, payload) ==
    Parsed(c, <<Event(c, "channel_group_leave", <<>>)>>)
parse_server_role_update(c, cached, payload) ==
    Parsed(c, <<Event(c, "server_role_update", <<>>)>>)
parse_server_role_delete(c, cached, payload) ==
    Parsed(c, <<Event(c, "server_role_delete", <<>>)>>)
parse_user_relationship(c, cached, payload) ==
    Parsed(c, <<Event(c, "user_relationship", <<>>)>>)

\* the dispatch is inside "if self._cache:"
parse_channel_start_typing(c, cached, payload) ==
    IF ~cached THEN Parsed(c, <<>>)
    ELSE IF {"id", "user"} \ DOMAIN payload # {} THEN Failed(c, "KeyError", <<>>)
    ELSE LET channel == get_channel(c, payload.id)
             user == get_user(c, payload.user)
         IN  Parsed(c, <<Event(c, "channel_start_typing", <<channel, user>>)>>)

\* dispatches "channel_start_typing", as parse_channel_start_typing does
parse_channel_stop_typing(c, cached, payload) ==
    IF ~cached THEN Parsed(c, <<>>)
    ELSE IF {"id", "user"} \ DOMAIN payload # {} THEN Failed(c, "KeyError", <<>>)
    ELSE LET channel == get_channel(c, payload.id)
             user == get_user(c, payload.user)
         IN  Parsed(c, <<Event(c, "channel_start_typing", <<channel, user>>)>>)

parse_channel_ack(c, cached, payload) ==
    IF ~cached THEN Parsed(c, <<>>)
    ELSE IF "id" \notin DOMAIN payload THEN Failed(c, "KeyError", <<>>)
    ELSE LET channel == get_channel(c, payload.id)
         IN  Parsed(c, <<Event(c, "channel_ack", <<channel>>)>>)

\* the names parse_user_update assigns that a User has no attribute for
\* (User is a slotted class with app, id, name, status, our_relation,
\* relationships and online)
NotAttributes == {"username", "badges", "avatar", "flags", "relationship"}

\* copy(user): a new User whose attributes are the objects user has, so its
\* status is the Status object user has after the handler assigned to it
copy(user, mutated) ==
    IF "status" \in DOMAIN user THEN [user EXCEPT !.status = mutated.status] ELSE user

\* user is the object the cache holds: an assignment to user.status.text
\* changes the cached user before update_user is called
parse_user_update(c, cached, payload) ==
    IF ~cached THEN Parsed(c, <<>>)
    ELSE IF "id" \notin DOMAIN payload THEN Failed(c, "KeyError", <<>>)
    ELSE IF get_user(c, payload.id) = None THEN Parsed(c, <<>>)
    ELSE LET user == get_user(c, payload.id)
             deletes == "delete" \in DOMAIN payload /\ payload.delete = "StatusText"
             assigned == IF deletes /\ "status" \in DOMAIN user
                         THEN [user EXCEPT !.status.text = None] ELSE user
             old_user == copy(user, assigned)
             c1 == [c EXCEPT !.users[payload.id] = assigned]
             updated == update_user(c1, assigned)
         IN  IF deletes /\ "status" \notin DOMAIN user
             THEN Failed(c, "AttributeError", <<>>)
             ELSE IF "data" \in DOMAIN payload
                     /\ DOMAIN payload.data \cap NotAttributes # {}
             THEN Failed(c1, "AttributeError", <<>>)
             ELSE IF updated.raised # NoException
             THEN Failed(updated.cache, updated.raised, <<>>)
             ELSE Parsed(updated.cache,
                         <<Event(updated.cache, "user_update", <<old_user, assigned>>)>>)

\* EventManager.__init__: the names of the parse_ methods, without "parse_"
_parsers ==
    {"ready", "message", "message_update", "message_delete",
     "channel_create", "channel_update", "channel_delete", "channel_group_join",
     "channel_group_leave", "channel_start_typing", "channel_stop_typing", "channel_ack",
     "server_update", "server_delete", "server_member_join", "server_member_leave",
     "server_member_update", "server_role_update", "server_role_delete", "user_update",
     "user_relationship"}

\* self._parsers[name](raw_event)
func(name, c, cached, raw_event) ==
    CASE name = "ready" -> parse_ready(c, cached, raw_event)
      [] name = "message" -> parse_message(c, cached, raw_event)
      [] name = "channel_create" -> parse_channel_create(c, cached, raw_event)
      [] name = "channel_delete" -> parse_channel_delete(c, cached, raw_event)
      [] name = "server_delete" -> parse_server_delete(c, cached, raw_event)
      [] name = "server_member_join" -> parse_server_member_join(c, cached, raw_event)
      [] name = "server_member_leave" -> parse_server_member_leave(c, cached, raw_event)
      [] name = "server_member_update" -> parse_server_member_update(c, cached, raw_event)
      [] name = "message_update" -> parse_message_update(c, cached, raw_event)
      [] name = "message_delete" -> parse_message_delete(c, cached, raw_event)
      [] name = "channel_update" -> parse_channel_update(c, cached, raw_event)
      [] name = "channel_group_join" -> parse_channel_group_join(c, cached, raw_event)
      [] name = "channel_group_leave" -> parse_channel_group_leave(c, cached, raw_event)
      [] name = "channel_start_typing" -> parse_channel_start_typing(c, cached, raw_event)
      [] name = "channel_stop_typing" -> parse_channel_stop_typing(c, cached, raw_event)
      [] name = "channel_ack" -> parse_channel_ack(c, cached, raw_event)
      [] name = "server_update" -> parse_server_update(c, cached, raw_event)
      [] name = "server_role_update" -> parse_server_role_update(c, cached, raw_event)
      [] name = "server_role_delete" -> parse_server_role_delete(c, cached, raw_event)
      [] name = "user_update" -> parse_user_update(c, cached, raw_event)
      [] name = "user_relationship" -> parse_user_relationship(c, cached, raw_event)

\* the name consume_raw_event converts an event-type string to
converted(name) == _convert_pattern_sub_lower(Chars[name], 1)

\* self._parsers[name] for the converted name of each event-type string:
\* the name of the parse_ method without "parse_", or None where the
\* lookup raises KeyError
lookup ==
    [name \in WireTypes |->
        LET snake == converted(name)
            found == {p \in _parsers : Chars[p] = snake}
        IN  IF found = {} THEN None
            ELSE [kind |-> "str", value |-> CHOOSE p \in found : TRUE]]

\* an except clause that catches TypeError only
except_TypeError == {"TypeError"}
\* "except Exception": every exception class a handler can raise
except_Exception == {"TypeError", "KeyError", "AttributeError", "UnboundLocalError"}

\* The cache after the event, the calls of dispatch in order, what was
\* logged (the exception of the handler, or that the event is unknown) and
\* the exception that left consume_raw_event.  name is a str or None:
\* re.sub of None raises TypeError, before the try statement.
consume_raw_event(c, cached, name, raw_event) ==
    IF name = None
    THEN [cache |-> c, emitted |-> <<>>, logged |-> NoException, raised |-> "TypeError"]
    ELSE LET found == lookup[name.value]
         IN  IF found = None
             THEN [cache |-> c, emitted |-> <<>>, logged |-> "Unknown event",
                   raised |-> NoException]
             ELSE LET p == found.value
                      r == func(p, c, cached, raw_event)
                      caught == r.raised \in except_Exception
                  IN  [cache |-> r.cache,
                       emitted |-> <<RawEvent(c, p, raw_event)>> \o r.emitted,
                       logged |-> IF caught THEN r.raised ELSE NoException,
                       raised |-> IF r.raised = NoException \/ caught
                                  THEN NoException ELSE r.raised]

----------------------------------------------------------------------------
(* The lookup of consume_raw_event by itself, for the event-type strings   *)
(* of the wire protocol.                                                   *)

MaxLookups == 2

Convert ==
    /\ Len(lookups) < MaxLookups
    /\ \E name \in WireTypes :
          lookups' = Append(lookups, [type |-> name, name |-> converted(name),
                                      func |-> lookup[name]])
    /\ UNCHANGED <<cacheVars, eventVars, gatewayVars, restVars, auth_events, views>>

SpecLookup == InitCache /\ [][Convert]_vars

----------------------------------------------------------------------------
(* The frames the server sends on a connection after the handshake *)

MaxFrames == 3

UserPayloads == {[_id |-> "u1", username |-> "n1"]}
ServerPayloads == {[_id |-> "s1", name |-> "n1"]}
ChannelPayloads ==
    {[_id |-> "c1", channel_type |-> t, name |-> "n1"] : t \in {"TextChannel", "Unknown"}}

ReadyFrames ==
    {[type |-> "Ready", users |-> <<>>, servers |-> <<>>, channels |-> <<>>]}
    \cup {[type |-> "Ready", users |-> <<u>>, servers |-> <<s>>, channels |-> <<>>] :
             u \in UserPayloads, s \in ServerPayloads}
    \cup {[type |-> "Ready", users |-> <<u>>, servers |-> <<s>>, channels |-> <<ch>>] :
             u \in UserPayloads, s \in ServerPayloads, ch \in ChannelPayloads}
MessageFrames == {[type |-> "Message", _id |-> m.id, content |-> m.content] : m \in Messages}
ChannelCreateFrames ==
    {[type |-> "ChannelCreate", _id |-> "c1", channel_type |-> "TextChannel", name |-> "n1"]}
ChannelDeleteFrames == {[type |-> "ChannelDelete", _id |-> "c1"]}
\* ServerDeletePayload names the server id; parse_server_delete reads _id
ServerDeleteFrames ==
    {[type |-> "ServerDelete", id |-> "s1"], [type |-> "ServerDelete", _id |-> "s1"]}
ServerMemberJoinFrames ==
    {[type |-> "ServerMemberJoin", id |-> m.id, user |-> m.user_id] : m \in Members}
ServerMemberLeaveFrames ==
    {[type |-> "ServerMemberLeave", id |-> m.id, user |-> m.user_id] : m \in Members}
ServerMemberUpdateFrames ==
    {[type |-> "ServerMemberUpdate", id |-> m.id, user |-> m.user_id, nickname |-> "n2"] :
        m \in Members}
PongFrames == {[type |-> "Pong"]}

Frames ==
    ReadyFrames \cup MessageFrames \cup ChannelCreateFrames \cup ChannelDeleteFrames
    \cup ServerDeleteFrames \cup ServerMemberJoinFrames
    \cup ServerMemberLeaveFrames \cup ServerMemberUpdateFrames \cup PongFrames

----------------------------------------------------------------------------
(* defectio/api/gateway.py: Gateway.  start is followed from await to      *)
(* await: pc names the await it is suspended at.  A connection is the      *)
(* ClientSession of one iteration of start and the websocket ws_connect    *)
(* returned for it: connecting, failed, open, remote_closed (the server    *)
(* closed it or it broke; autoclose is off, so the client did not close    *)
(* it) or closed (the client called close on it).                          *)

MaxConnects == 2
MaxControl == 1
MaxArrivals == 2

Connection(state) == [session_open |-> TRUE, state |-> state, close_code |-> None]

\* ExponentialBackoff.delay(): the generator after the call, and the delay,
\* which grows with every call
delay(b) == [backoff |-> b + 1, value |-> 2 ^ b]

\* "except (aiohttp.ClientError, asyncio.TimeoutError)" of start
start_except == {"ClientError", "TimeoutError"}

\* One iteration of "while not self._closed.is_set()", up to the await of
\* ws_connect: backoff.delay() is called and its result dropped, a
\* ClientSession is made and ws_connect called on it.  cs is conns and b the
\* backoff, and closed whether _closed is set, as the statements before
\* left them; called is the trace with the calls they made.
Iterate(cs, b, closed, called) ==
    IF closed
    THEN /\ pc' = "returned"
         /\ conns' = cs
         /\ backoff' = b
         /\ trace' = called
    ELSE /\ Len(cs) < MaxConnects
         /\ pc' = "connecting"
         /\ conns' = Append(cs, Connection("connecting"))
         /\ backoff' = delay(b).backoff
         /\ trace' = called \o <<"backoff.delay", "ClientSession", "ws_connect">>

\* An exception e reaches the try statement of start: a caught one is
\* logged and the loop continues, another one leaves start.
Raise(e, cs) ==
    IF e \in start_except
    THEN Iterate(cs, backoff, _closed, trace) /\ start_raised' = start_raised
    ELSE /\ pc' = "raised"
         /\ start_raised' = e
         /\ conns' = cs
         /\ UNCHANGED <<backoff, trace>>

\* the application calls start: also again, when an earlier call is over
start ==
    /\ pc \in {"idle", "returned", "raised"}
    /\ _closed' = FALSE
    /\ start_raised' = NoException
    /\ LET called == Append(trace, "start")
       IN  Iterate(conns, 0, FALSE, called)
    /\ UNCHANGED <<restVars, lookups, auth_events, views>>
    /\ UNCHANGED <<components, cache, call, ret, has_cache, ws, arrived, running, started,
                   finished, handled, dispatched, _closing, _ws, sent, authenticated>>

\* ws_connect returns the websocket; _authenticate sends Authenticate on it
\* and awaits _wait_for_auth, for 10 seconds at most
ws_connect_returns ==
    /\ pc = "connecting"
    /\ conns' = [conns EXCEPT ![Len(conns)].state = "open"]
    /\ _ws' = [conn |-> Len(conns)]
    /\ ws' = <<>>
    /\ sent' = Append(sent, [conn |-> Len(conns), frame |-> [type |-> "Authenticate"]])
    /\ trace' = Append(trace, "asyncio.wait_for")
    /\ pc' = "authenticating"
    /\ UNCHANGED <<restVars, lookups, auth_events, views>>
    /\ UNCHANGED <<components, cache, call, ret, has_cache, arrived, running, started,
                   finished, handled, dispatched, start_raised, _closing, _closed, backoff,
                   authenticated>>

\* ws_connect fails: the server is not reachable, or does not answer in time
ws_connect_raises ==
    /\ pc = "connecting"
    /\ \E e \in start_except :
          Raise(e, [conns EXCEPT ![Len(conns)].state = "failed"])
    /\ UNCHANGED <<restVars, lookups, auth_events, views>>
    /\ UNCHANGED <<components, cache, call, ret, has_cache, ws, arrived, running, started,
                   finished, handled, dispatched, _closing, _closed, _ws, sent,
                   authenticated>>

\* _wait_for_auth reads the Authenticated frame
_authenticate_returns ==
    /\ pc = "authenticating"
    /\ conns[_ws.conn].state = "open"
    /\ authenticated' = "True"
    /\ pc' = "receiving"
    /\ UNCHANGED <<restVars, lookups, auth_events, views>>
    /\ UNCHANGED <<components, cache, call, ret, has_cache, ws, arrived, running, started,
                   finished, handled, dispatched, start_raised, _closing, _closed, _ws,
                   conns, backoff, trace, sent>>

\* _wait_for_auth reads an Error frame, or wait_for ends it after 10 seconds
\* and _authenticate turns the TimeoutError into a GatewayError; or the
\* websocket was closed and _read of the close message raises TypeError
_authenticate_raises ==
    /\ pc = "authenticating"
    /\ IF conns[_ws.conn].state = "open" THEN Raise("GatewayError", conns)
       ELSE Raise("TypeError", conns)
    /\ UNCHANGED <<restVars, lookups, auth_events, views>>
    /\ UNCHANGED <<components, cache, call, ret, has_cache, ws, arrived, running, started,
                   finished, handled, dispatched, _closing, _closed, _ws, sent,
                   authenticated>>

\* The server sends a frame: it waits in the websocket until it is read.
\* frames is the set the frame is from, and max how many frames arrive at most
ArriveFrom(frames, max) ==
    /\ pc = "receiving"
    /\ conns[_ws.conn].state = "open"
    /\ arrived < max
    /\ \E frame \in frames :
          ws' = Append(ws, [n |-> arrived + 1, frame |-> frame])
    /\ arrived' = arrived + 1
    /\ UNCHANGED <<restVars, lookups, auth_events, views>>
    /\ UNCHANGED <<components, cache, call, ret, has_cache, running, started, finished,
                   handled, dispatched>>
    /\ UNCHANGED gatewayVars

Arrive == ArriveFrom(Frames, MaxFrames)

\* "async for msg in self._ws: await self._received_message(msg)": the loop
\* asks for the next frame only when _received_message of the last returned
\* a loop that starts _received_message as a task of its own
awaited_as_task == TRUE
awaited == running = <<>>

\* a receive loop that runs while _authenticate still waits
_authenticate_awaited_as_task == pc \in {"authenticating", "receiving"}
\* "await self._authenticate()" comes before the loop: the loop runs when
\* _authenticate has returned
_authenticate_awaited == pc = "receiving"

\* The loop reads the next frame and calls _received_message with it.
Receive ==
    /\ _authenticate_awaited
    /\ awaited
    /\ ws # <<>>
    /\ running' = Append(running, Head(ws))
    /\ started' = Append(started, Head(ws).n)
    /\ ws' = Tail(ws)
    /\ UNCHANGED <<restVars, lookups, auth_events, views>>
    /\ UNCHANGED <<components, cache, call, ret, has_cache, arrived, finished, handled,
                   dispatched>>
    /\ UNCHANGED gatewayVars

\* _dispatch hands the frame to consume_raw_event; its "except LookupError"
\* catches KeyError and reads self._logger, an attribute a Gateway does not
\* have
_dispatch(c, cached, name, data) ==
    LET r == consume_raw_event(c, cached, name, data)
    IN  IF r.raised \in {"KeyError"} THEN [r EXCEPT !.raised = "AttributeError"]
        ELSE r

\* _received_message reads the type of the frame and _dispatch hands it to
\* consume_raw_event, which runs to its end; an exception that leaves it
\* reaches the try statement of start.
_received_message ==
    \E i \in 1..Len(running) :
        LET msg == running[i]
            name == get(msg.frame, "type")
            r == _dispatch(cache, has_cache, name, msg.frame)
        IN  /\ cache' = r.cache
            /\ dispatched' = dispatched \o r.emitted
            /\ handled' = Append(handled, [n |-> msg.n, frame |-> msg.frame,
                                           logged |-> r.logged, raised |-> r.raised])
            /\ finished' = Append(finished, msg.n)
            /\ running' = SubSeq(running, 1, i - 1) \o SubSeq(running, i + 1, Len(running))
            /\ IF r.raised = NoException
               THEN UNCHANGED <<pc, start_raised, conns, backoff, trace>>
               ELSE Raise(r.raised, conns)
            /\ UNCHANGED <<restVars, lookups, auth_events, views>>
            /\ UNCHANGED <<components, call, ret, has_cache, ws, arrived, started, _closing,
                           _closed, _ws, sent, authenticated>>

\* The server closes the websocket with a close frame (code 1000), or the
\* connection breaks (code 1006): the websocket has that close code when the
\* loop has read it.
RemoteClose ==
    /\ pc \in {"authenticating", "receiving"}
    /\ conns[_ws.conn].state = "open"
    /\ \E code \in {1000, 1006} :
          conns' = [conns EXCEPT ![_ws.conn].state = "remote_closed",
                                 ![_ws.conn].close_code = [code |-> code]]
    /\ UNCHANGED <<restVars, lookups, auth_events, views>>
    /\ UNCHANGED <<components, cache, call, ret, has_cache, ws, arrived, running, started,
                   finished, handled, dispatched, pc, start_raised, _closing, _closed, _ws,
                   backoff, trace, sent, authenticated>>

\* "if self._ws.close_code is None": the websocket was closed by the client
\* a start that returns when the websocket has a close code
closed_with_a_code(conn) == conn.close_code # None
closed_by_the_client(conn) == conn.close_code = None

\* The frames of a closed websocket are read and "async for" ends: start
\* returns when the client closed the websocket, and loops otherwise.
receive_ends ==
    /\ pc = "receiving"
    /\ awaited
    /\ ws = <<>>
    /\ conns[_ws.conn].state \in {"remote_closed", "closed"}
    /\ IF closed_by_the_client(conns[_ws.conn])
       THEN pc' = "returned" /\ UNCHANGED <<conns, backoff, trace>>
       ELSE Iterate(conns, backoff, _closed, trace)
    /\ UNCHANGED <<restVars, lookups, auth_events, views>>
    /\ UNCHANGED <<components, cache, call, ret, has_cache, ws, arrived, running, started,
                   finished, handled, dispatched, start_raised, _closing, _closed, _ws, sent,
                   authenticated>>

\* The await of the next frame raises: the connection is of no use any more
receive_raises ==
    /\ pc = "receiving"
    /\ awaited
    /\ ws = <<>>
    /\ conns[_ws.conn].state = "open"
    /\ \E e \in start_except :
          Raise(e, [conns EXCEPT ![_ws.conn].state = "remote_closed"])
    /\ UNCHANGED <<restVars, lookups, auth_events, views>>
    /\ UNCHANGED <<components, cache, call, ret, has_cache, ws, arrived, running, started,
                   finished, handled, dispatched, _closing, _closed, _ws, sent,
                   authenticated>>

\* The application calls close, while start is not running or is suspended
\* at an await: a second call does nothing.
close ==
    /\ awaited
    /\ ~_closing
    /\ conns' = IF _ws # None THEN [conns EXCEPT ![_ws.conn].state = "closed"] ELSE conns
    /\ trace' = trace \o <<"close">> \o (IF _ws # None THEN <<"ws.close">> ELSE <<>>)
    /\ _closing' = TRUE
    /\ UNCHANGED <<restVars, lookups, auth_events, views>>
    /\ UNCHANGED <<components, cache, call, ret, has_cache, ws, arrived, running, started,
                   finished, handled, dispatched, pc, start_raised, _closed, _ws, backoff,
                   sent, authenticated>>

\* self._send(payload): send_bytes or send_json of self._ws, whatever the
\* state of the connection; the set of the ways it can end.  None has no
\* such attribute; a websocket the client closed refuses to write; an open
\* one writes the frame; one the server closed writes it, or refuses when
\* the transport is gone already.
_send(payload) ==
    LET written == [sent |-> Append(sent, [conn |-> _ws.conn, frame |-> payload]),
                    raised |-> NoException]
        refused == [sent |-> sent, raised |-> "ConnectionResetError"]
    IN  IF _ws = None THEN {[sent |-> sent, raised |-> "AttributeError"]}
        ELSE IF conns[_ws.conn].state = "closed" THEN {refused}
        ELSE IF conns[_ws.conn].state = "open" THEN {written}
        ELSE {written, refused}

IsControl(s) == s.frame.type # "Authenticate"

\* The application calls op with arg, which sends payload
Control(op, arg, payload) ==
    /\ awaited
    /\ Len(SelectSeq(sent, IsControl)) < MaxControl
    /\ call' = [op |-> op, arg |-> arg]
    /\ \E r \in _send(payload) :
          /\ ret' = [raised |-> r.raised, value |-> None]
          /\ sent' = r.sent
    /\ UNCHANGED <<restVars, lookups, auth_events, views>>
    /\ UNCHANGED <<components, cache, has_cache, ws, arrived, running, started, finished,
                   handled, dispatched, pc, start_raised, _closing, _closed, _ws, conns,
                   backoff, trace, authenticated>>

begin_typing ==
    \E channel \in Channels :
        Control("begin_typing", channel, [type |-> "BeginTyping", channel |-> channel.id])
stop_typing ==
    \E channel \in Channels :
        Control("stop_typing", channel, [type |-> "StopTyping", channel |-> channel.id])
ping == Control("ping", None, [type |-> "Ping"])

\* start on its first connection, after _authenticate returned
Connected ==
    /\ pc = "receiving"
    /\ start_raised = NoException
    /\ _closing = FALSE
    /\ _closed = FALSE
    /\ _ws = [conn |-> 1]
    /\ conns = <<Connection("open")>>
    /\ backoff = delay(0).backoff
    /\ trace = <<"start", "backoff.delay", "ClientSession", "ws_connect",
                 "asyncio.wait_for">>
    /\ sent = <<[conn |-> 1, frame |-> [type |-> "Authenticate"]]>>
    /\ authenticated = "True"

\* the cache is constructed with the default settings (components ALL)
InitEvents ==
    /\ components = "ALL"
    /\ cache = _create_cache
    /\ call = [op |-> "__init__", arg |-> None]
    /\ ret = [raised |-> NoException, value |-> None]
    /\ has_cache \in BOOLEAN
    /\ RESTClient__init__
    /\ Idle
    /\ ws = <<>>
    /\ arrived = 0
    /\ running = <<>>
    /\ started = <<>>
    /\ finished = <<>>
    /\ handled = <<>>
    /\ dispatched = <<>>
    /\ Connected

NextEvents ==
    \/ Arrive
    \/ Receive
    \/ _received_message

SpecEvents == InitEvents /\ [][NextEvents]_vars

----------------------------------------------------------------------------
(* The Gateway from its construction on: the application calls start and   *)
(* close, the server answers, sends frames, closes or fails.               *)

\* frames with a handler that returns, with one that raises (it reads _id),
\* with none, and a frame without a type
GatewayFrames ==
    {[type |-> "Message", _id |-> "m1", content |-> "n1"],
     [type |-> "ServerDelete", id |-> "s1"],
     [type |-> "Pong"],
     [content |-> "n1"]}

ArriveGateway == ArriveFrom(GatewayFrames, MaxArrivals)

InitGateway ==
    /\ components = "ALL"
    /\ cache = _create_cache
    /\ call = [op |-> "__init__", arg |-> None]
    /\ ret = [raised |-> NoException, value |-> None]
    /\ InitEventsIdle
    /\ Gateway__init__

NextGateway ==
    \/ start
    \/ ws_connect_returns
    \/ ws_connect_raises
    \/ _authenticate_returns
    \/ _authenticate_raises
    \/ ArriveGateway
    \/ Receive
    \/ _received_message
    \/ RemoteClose
    \/ receive_ends
    \/ receive_raises
    \/ close

SpecGateway == InitGateway /\ [][NextGateway]_vars

----------------------------------------------------------------------------
(* The handshake frame by frame: the server sends frames from the moment   *)
(* the websocket is open, and _wait_for_auth reads them.                   *)

\* the frames _wait_for_auth waits for
valid == {"Error", "Authenticated"}

\* the two replies to Authenticate, a frame of an event and a frame
\* without a type
HandshakeFrames ==
    {[type |-> "Authenticated"], [type |-> "Error"],
     [type |-> "Message", _id |-> "m1", content |-> "n1"], [content |-> "n1"]}

ArriveHandshake ==
    /\ pc \in {"authenticating", "receiving"}
    /\ conns[_ws.conn].state = "open"
    /\ arrived < MaxArrivals
    /\ \E frame \in HandshakeFrames :
          ws' = Append(ws, [n |-> arrived + 1, frame |-> frame])
    /\ arrived' = arrived + 1
    /\ UNCHANGED <<restVars, lookups, auth_events, views, cacheVars, has_cache, running,
                   started, finished, handled, dispatched, gatewayVars>>

\* One turn of the loop of _wait_for_auth: it reads a frame; a frame whose
\* type is not in valid is dropped and the loop goes on.  Authenticated
\* ends _authenticate, which sets authenticated, and start enters its
\* receive loop; Error raises GatewayError.
_wait_for_auth ==
    /\ pc = "authenticating"
    /\ conns[_ws.conn].state \in {"open", "remote_closed"}
    /\ ws # <<>>
    /\ LET auth_event == Head(ws)
           type == get(auth_event.frame, "type")
       IN  /\ auth_events' = Append(auth_events, auth_event)
           /\ ws' = Tail(ws)
           /\ IF type = None \/ type.value \notin valid
              THEN UNCHANGED <<pc, start_raised, conns, backoff, trace, authenticated>>
              ELSE IF type.value = "Authenticated"
              THEN /\ authenticated' = "True"
                   /\ pc' = "receiving"
                   /\ UNCHANGED <<start_raised, conns, backoff, trace>>
              ELSE /\ Raise("GatewayError", conns)
                   /\ UNCHANGED authenticated
    /\ UNCHANGED <<restVars, lookups, views, cacheVars, has_cache, arrived, running,
                   started, finished, handled, dispatched, _closing, _closed, _ws, sent>>

NextHandshake ==
    \/ start
    \/ ws_connect_returns
    \/ ws_connect_raises
    \/ _wait_for_auth
    \/ _authenticate_raises
    \/ ArriveHandshake
    \/ Receive
    \/ _received_message
    \/ RemoteClose
    \/ receive_ends
    \/ receive_raises
    \/ close

SpecHandshake == InitGateway /\ [][NextHandshake]_vars

\* The application also calls the methods that send, at any moment; the
\* frames the server sends after the handshake are left out.
NextControl ==
    \/ start
    \/ ws_connect_returns
    \/ ws_connect_raises
    \/ _authenticate_returns
    \/ _authenticate_raises
    \/ RemoteClose
    \/ receive_ends
    \/ receive_raises
    \/ close
    \/ begin_typing
    \/ stop_typing
    \/ ping

SpecControl == InitGateway /\ [][NextControl]_vars

----------------------------------------------------------------------------
(* The events that update or remove what an earlier event cached, and the  *)
(* events that cache nothing, on one authenticated connection.             *)

\* a user of a Ready payload that has a status
StatusUserPayloads == {[_id |-> "u1", username |-> "n1", status |-> [text |-> "t1"]]}

\* UserUpdatePayload names the key clear; parse_user_update reads delete
UserUpdateFrames ==
    {[type |-> "UserUpdate", id |-> "u1", delete |-> "StatusText"],
     [type |-> "UserUpdate", id |-> "u1", clear |-> "StatusText"],
     [type |-> "UserUpdate", id |-> "u1", data |-> [username |-> "n2"]]}

UpdateFrames ==
    {[type |-> "Ready", users |-> <<u>>, servers |-> <<>>, channels |-> <<>>] :
        u \in UserPayloads \cup StatusUserPayloads}
    \cup {[type |-> "Message", _id |-> "m1", content |-> "n1"],
          [type |-> "MessageDelete", id |-> "m1", channel |-> "c1"],
          [type |-> "MessageUpdate", id |-> "m1", data |-> [content |-> "n2"]],
          [type |-> "ChannelStartTyping", id |-> "c1", user |-> "u1"],
          [type |-> "ChannelStopTyping", id |-> "c1", user |-> "u1"],
          [type |-> "ChannelAck", id |-> "c1", user |-> "u1", message_id |-> "m1"],
          [type |-> "ChannelGroupLeave", id |-> "c1", user |-> "u1"],
          [type |-> "ServerUpdate", id |-> "s1", data |-> [name |-> "n2"]],
          [type |-> "ServerRoleUpdate", id |-> "s1", role_id |-> "r1"]}
    \cup UserUpdateFrames

ArriveUpdates == ArriveFrom(UpdateFrames, MaxArrivals)

NextUpdates ==
    \/ ArriveUpdates
    \/ Receive
    \/ _received_message

SpecUpdates == InitEvents /\ [][NextUpdates]_vars

----------------------------------------------------------------------------
(* defectio/api/rest.py: RESTClient.  The value of _live_attributes is     *)
(* "unset" (the object has no such attribute), None or a _LiveAttributes.  *)
(* A method is an operator to the exception raised, the value returned     *)
(* and what the call did before it ended: the statuses of the HTTP         *)
(* responses it received, the backoff sleeps it made and the tokens it     *)
(* acquired.                                                               *)

max_retries == 3
MaxRestCalls == 2

\* compiled routes, and what the server answers to the HTTP calls of one
\* _request, in order
Routes == {"GET /users/u1", "GET /servers/s1"}
Responses ==
    {<<200>>, <<204>>, <<404>>, <<500, 500, 500, 200>>, <<500, 500, 500, 500>>,
     <<401, 200>>, <<401, 401>>, <<429, 200>>}
\* the content type of the answers of a route
ContentTypes == {"application/json", "text/html"}

Done(raised, value) ==
    [raised |-> raised, value |-> value, requested |-> <<>>, slept |-> <<>>,
     acquired |-> <<>>]

\* "if self._live_attributes: return self._live_attributes", else
\* RuntimeError: reading an attribute the object does not have raises
\* AttributeError
_get_live_attributes(la) ==
    IF la = "unset" THEN Done("AttributeError", None)
    ELSE IF la = None THEN Done("RuntimeError", None)
    ELSE Done(NoException, la)

\* _request begins with self._get_live_attributes(); its next statement
\* calls data_binding.StringMapBuilder, and the module neither imports nor
\* defines data_binding.  route, no_auth, responses (what the server would
\* answer to the HTTP calls, in order) and their content_type are not
\* reached.
_request(la, route, no_auth, responses, content_type) ==
    LET live_attributes == _get_live_attributes(la)
    IN  IF live_attributes.raised # NoException THEN live_attributes
        ELSE Done("NameError", None)

\* The application calls a method of the client: the call is over when the
\* next one begins.
RestCall(op, args, r) ==
    /\ Len(rest_calls) < MaxRestCalls
    /\ rest_calls' = Append(rest_calls, [op |-> op, args |-> args, raised |-> r.raised,
                                         value |-> r.value, requested |-> r.requested,
                                         slept |-> r.slept, acquired |-> r.acquired])
    /\ UNCHANGED <<cacheVars, eventVars, gatewayVars, lookups, auth_events, views>>

\* start(): "if self._live_attributes" reads the attribute; where it is
\* None, _LiveAttributes.build calls net.create_tcp_connector, and the
\* module neither imports nor defines net
RESTClient_start ==
    /\ RestCall("start", None,
                IF _live_attributes = "unset" THEN Done("AttributeError", None)
                ELSE IF _live_attributes # None THEN Done("RuntimeError", None)
                ELSE Done("NameError", None))
    /\ UNCHANGED _live_attributes

\* close(): _get_live_attributes() comes first, the attribute is set to
\* None after it
RESTClient_close ==
    LET live_attributes == _get_live_attributes(_live_attributes)
    IN  /\ RestCall("close", None, live_attributes)
        /\ _live_attributes' = IF live_attributes.raised = NoException THEN None
                               ELSE _live_attributes

Call__request ==
    \E route \in Routes, no_auth \in BOOLEAN, responses \in Responses,
       content_type \in ContentTypes :
        /\ RestCall("_request",
                    [route |-> route, no_auth |-> no_auth, responses |-> responses,
                     content_type |-> content_type],
                    _request(_live_attributes, route, no_auth, responses, content_type))
        /\ UNCHANGED _live_attributes

\* a bool
Bool(b) == [kind |-> "bool", value |-> b]

\* the property is_alive: "return self._live_attributes is not None" reads
\* the attribute
is_alive(la) ==
    IF la = "unset" THEN Done("AttributeError", None) ELSE Done(NoException, Bool(la # None))

\* The application reads is_alive
RESTClient_is_alive ==
    /\ RestCall("is_alive", None, is_alive(_live_attributes))
    /\ UNCHANGED _live_attributes

NextRest ==
    \/ RESTClient_start
    \/ RESTClient_close
    \/ RESTClient_is_alive
    \/ Call__request

SpecRest == InitGateway /\ [][NextRest]_vars

----------------------------------------------------------------------------
(* Properties of the cache, under SpecCache.  call, ret and cache describe *)
(* the moment right after the last call; in a step, the unprimed cache is  *)
(* the cache right before the call named by call'.                         *)

Tuple(a, b) == [kind |-> "tuple", first |-> a, second |-> b]

\* C1: in every collection, get(k) right after set(k, v) returns v, also when
\* the set replaced an earlier value of k, and k has exactly one entry; for
\* members, get_member(server, user) returns the member set_member stored.
C1_SetThenGet ==
    /\ call.op = "set_user" =>
          /\ get_user(cache, call.arg.id) = call.arg
          /\ Cardinality({k \in DOMAIN get_users_view(cache) : k = call.arg.id}) = 1
    /\ call.op = "set_channel" =>
          /\ get_channel(cache, call.arg.id) = call.arg
          /\ Cardinality({k \in DOMAIN get_channel_view(cache) : k = call.arg.id}) = 1
    /\ call.op = "set_server" =>
          /\ get_server(cache, call.arg.id) = call.arg
          /\ Cardinality({k \in DOMAIN get_servers_view(cache) : k = call.arg.id}) = 1
    /\ call.op = "set_message" =>
          /\ get_message(cache, call.arg.id) = call.arg
          /\ Cardinality({k \in DOMAIN get_messages_view(cache) : k = call.arg.id}) = 1
    /\ call.op = "set_member" =>
          get_member(cache, call.arg.id, call.arg.user_id) = call.arg

\* C2: update(k, v) completes normally, returns (previous, v) where previous
\* is what was stored at k right before the call, or None, and get(k) then
\* returns v; in every collection, and for the own user.
C2_UpdateReturnsPrevious ==
    [][/\ call'.op = "update_me" =>
            /\ ret' = [raised |-> NoException, value |-> Tuple(get_me(cache), call'.arg)]
            /\ get_me(cache') = call'.arg
       /\ call'.op = "update_user" =>
            /\ ret' = [raised |-> NoException,
                       value |-> Tuple(get_user(cache, call'.arg.id), call'.arg)]
            /\ get_user(cache', call'.arg.id) = call'.arg
       /\ call'.op = "update_channel" =>
            /\ ret' = [raised |-> NoException,
                       value |-> Tuple(get_channel(cache, call'.arg.id), call'.arg)]
            /\ get_channel(cache', call'.arg.id) = call'.arg
       /\ call'.op = "update_server" =>
            /\ ret' = [raised |-> NoException,
                       value |-> Tuple(get_server(cache, call'.arg.id), call'.arg)]
            /\ get_server(cache', call'.arg.id) = call'.arg
       /\ call'.op = "update_member" =>
            /\ ret' = [raised |-> NoException,
                       value |-> Tuple(Get(cache.members, call'.arg.id), call'.arg)]
            /\ Get(cache'.members, call'.arg.id) = call'.arg
       /\ call'.op = "update_message" =>
            /\ ret' = [raised |-> NoException,
                       value |-> Tuple(get_message(cache, call'.arg.id), call'.arg)]
            /\ get_message(cache', call'.arg.id) = call'.arg
      ]_vars

\* C3: in a cache constructed with CacheComponents.NONE every mutator returns
\* an empty or absent result and every view has size 0 at all times.
C3_DisabledCacheStaysEmpty ==
    components = "NONE" =>
        /\ ret.value \in {None, EmptyDict}
        /\ get_me(cache) \in {None, EmptyDict}
        /\ Cardinality(DOMAIN get_users_view(cache)) = 0
        /\ Cardinality(DOMAIN get_channel_view(cache)) = 0
        /\ Cardinality(DOMAIN get_servers_view(cache)) = 0
        /\ Cardinality(DOMAIN get_members_view(cache)) = 0
        /\ Cardinality(DOMAIN get_messages_view(cache)) = 0

\* C4: delete_X(k) returns what was stored at k, or None, and get_X(k) is
\* absent afterwards; clear_X() returns the mapping that was in collection X
\* and leaves it empty; for the own user, users, channels, servers, members
\* and messages.
C4_DeleteAndClearReturnRemoved ==
    [][/\ call'.op = "clear_me" =>
            /\ ret' = [raised |-> NoException, value |-> get_me(cache)]
            /\ get_me(cache') = None
       /\ call'.op = "delete_user" =>
            /\ ret' = [raised |-> NoException, value |-> get_user(cache, call'.arg)]
            /\ get_user(cache', call'.arg) = None
       /\ call'.op = "clear_users" =>
            /\ ret' = [raised |-> NoException, value |-> get_users_view(cache)]
            /\ get_users_view(cache') = EmptyDict
       /\ call'.op = "delete_channel" =>
            /\ ret' = [raised |-> NoException, value |-> get_channel(cache, call'.arg)]
            /\ get_channel(cache', call'.arg) = None
       /\ call'.op = "clear_channels" =>
            /\ ret' = [raised |-> NoException, value |-> get_channel_view(cache)]
            /\ get_channel_view(cache') = EmptyDict
       /\ call'.op = "delete_server" =>
            /\ ret' = [raised |-> NoException, value |-> get_server(cache, call'.arg)]
            /\ get_server(cache', call'.arg) = None
       /\ call'.op = "clear_servers" =>
            /\ ret' = [raised |-> NoException, value |-> get_servers_view(cache)]
            /\ get_servers_view(cache') = EmptyDict
       /\ call'.op = "delete_member" =>
            /\ ret' = [raised |-> NoException, value |-> Get(cache.members, call'.arg)]
            /\ Get(cache'.members, call'.arg) = None
       /\ call'.op = "clear_members" =>
            /\ ret' = [raised |-> NoException, value |-> get_members_view(cache)]
            /\ get_members_view(cache') = EmptyDict
       /\ call'.op = "delete_message" =>
            /\ ret' = [raised |-> NoException, value |-> get_message(cache, call'.arg)]
            /\ get_message(cache', call'.arg) = None
       /\ call'.op = "clear_messages" =>
            /\ ret' = [raised |-> NoException, value |-> get_messages_view(cache)]
            /\ get_messages_view(cache') = EmptyDict
      ]_vars

----------------------------------------------------------------------------
(* Properties of the event manager and the receive loop, under SpecEvents. *)

Last(seq) == seq[Len(seq)]
Range(d) == {d[k] : k \in DOMAIN d}
IsDomainEvent(e) == ~e.raw
\* the names of the events dispatched to subscribers, without the raw_ ones
DomainEventNames ==
    LET domain == SelectSeq(dispatched, IsDomainEvent)
    IN  [i \in 1..Len(domain) |-> domain[i].name]
HandledFrames == [i \in 1..Len(handled) |-> handled[i].frame]

\* C5: with a cache, when only ServerMemberJoin events were handled, every
\* (server, user) pair that joined has its own entry in the member cache.
C5_MembersKeyedByServerAndUser ==
    (has_cache /\ \A i \in 1..Len(handled) : handled[i].frame.type = "ServerMemberJoin") =>
        \A i \in 1..Len(handled) :
            [id |-> handled[i].frame.id, user_id |-> handled[i].frame.user]
                \in Range(get_members_view(cache))

\* C6: the message cache never holds more than max_messages messages.
C6_MessageCacheBounded ==
    Cardinality(DOMAIN get_messages_view(cache)) <= max_messages

SetKinds == {"Ready", "Message", "ChannelCreate", "ServerMemberJoin"}

\* C7: when the handler of a Ready, Message, ChannelCreate or ServerMemberJoin
\* frame finishes and the frame handled right before it was the same frame,
\* the cache is as the first of the two left it.
C7_ReplayLeavesCacheUnchanged ==
    [][(/\ Len(handled') = Len(handled) + 1
        /\ Len(handled) >= 1
        /\ Last(handled').frame = Last(handled).frame
        /\ Last(handled').frame.type \in SetKinds)
       => cache' = cache]_vars

\* a Message frame was handled twice in a row and its message is cached
\* next to another message
C7_Witness ==
    /\ has_cache
    /\ Len(handled) >= 3
    /\ Last(handled).frame = handled[Len(handled) - 1].frame
    /\ Last(handled).frame.type = "Message"
    /\ Last(handled).frame._id \in DOMAIN get_messages_view(cache)
    /\ Cardinality(DOMAIN get_messages_view(cache)) = 2

\* C8: with a cache, after ServerMemberJoin, ServerMemberUpdate and
\* ServerMemberLeave of one member, in that order, the member is not cached
\* and the events dispatched are join, update and leave, in that order.
C8_JoinUpdateLeave ==
    \A m \in Members :
        (/\ has_cache
         /\ HandledFrames =
               <<[type |-> "ServerMemberJoin", id |-> m.id, user |-> m.user_id],
                 [type |-> "ServerMemberUpdate", id |-> m.id, user |-> m.user_id,
                  nickname |-> "n2"],
                 [type |-> "ServerMemberLeave", id |-> m.id, user |-> m.user_id]>>)
        => /\ get_member(cache, m.id, m.user_id) = None
           /\ m \notin Range(get_members_view(cache))
           /\ DomainEventNames =
                 <<"server_member_join", "server_member_update", "server_member_leave">>

\* C9: the handlers of the frames of a connection start in the order the
\* frames arrived, and a handler starts only when the one before it finished.
C9_OneAtATimeInOrder ==
    /\ Len(running) <= 1
    /\ \A i \in 1..Len(started) : started[i] = i
    /\ \A i \in 1..Len(finished) : finished[i] = i
    /\ Len(started) <= Len(finished) + 1

\* a handler is running after another finished, while a third frame waits
C9_Witness ==
    /\ Len(finished) >= 1
    /\ Len(running) = 1
    /\ ws # <<>>

\* C10: with a cache, the handler of a frame other than Ready runs only after
\* a Ready frame of the connection was handled and its load into the cache
\* completed.
C10_ReadyLoadedFirst ==
    \A i \in 1..Len(handled) :
        (has_cache /\ handled[i].frame.type # "Ready" /\ handled[i].logged # "Unknown event") =>
            \E j \in 1..(i - 1) :
                handled[j].frame.type = "Ready" /\ handled[j].logged = NoException

\* C11: with a cache, at the moment a create event (message, channel_create,
\* server_member_join) is dispatched its entity is in the cache, and at the
\* moment a delete event (channel_delete, server_delete, server_member_leave)
\* is dispatched its entity is no longer in the cache.
C11_MutationBeforeEmit ==
    \A i \in 1..Len(dispatched) :
        LET e == dispatched[i]
        IN  (has_cache /\ ~e.raw) =>
              /\ e.name = "message" => get_message(e.cache, e.args[1].id) = e.args[1]
              /\ e.name = "channel_create" =>
                    get_channel(e.cache, e.args[1].id) = e.args[1]
              /\ e.name = "server_member_join" =>
                    e.args[1] \in Range(get_members_view(e.cache))
              /\ e.name = "channel_delete" => get_channel(e.cache, e.args[1].id) = None
              /\ e.name = "server_delete" => get_server(e.cache, e.args[1].id) = None
              /\ e.name = "server_member_leave" =>
                    e.args[1] \notin Range(get_members_view(e.cache))

----------------------------------------------------------------------------
(* Properties of Gateway.start and close, under SpecGateway, and of the    *)
(* methods that send, under SpecControl.                                   *)

\* what a step appended to trace
Called == SubSeq(trace', Len(trace) + 1, Len(trace'))
\* start is running and begins another connect attempt in this step
Reconnects ==
    /\ pc \in {"connecting", "authenticating", "receiving"}
    /\ Len(conns') = Len(conns) + 1

\* C12: when a running start begins another connect attempt, after a connect
\* failure, an abrupt close or a timeout, it has slept for the delay of the
\* backoff since the attempt before.
C12_BackoffSleepBetweenAttempts ==
    [][Reconnects =>
          \E i \in 1..Len(Called) :
              /\ Called[i] = "asyncio.sleep"
              /\ \E j \in (i + 1)..Len(Called) : Called[j] = "ws_connect"]_vars

\* C13: when the handshake on an open connection fails (an Error frame, or
\* no Authenticated frame in 10 seconds), start does not end: it begins one
\* new connect attempt.
C13_HandshakeFailureReconnects ==
    [][(/\ pc = "authenticating"
        /\ conns[_ws.conn].state = "open"
        /\ pc' \notin {"authenticating", "receiving"})
       => /\ pc' = "connecting"
          /\ start_raised' = NoException
          /\ Len(conns') = Len(conns) + 1]_vars

\* close was called since start was
ClosedWhileRunning ==
    \E i \in 1..Len(trace) :
        /\ trace[i] = "close"
        /\ \A j \in i..Len(trace) : trace[j] # "start"

\* C14: once close was called while start is running, start begins no
\* connect attempt.
C14_NoConnectAfterClose ==
    [][ClosedWhileRunning => ~Reconnects]_vars

\* the receive loop of start ends in this step: all frames of the websocket
\* were read and it is closed
LoopEnds ==
    /\ pc = "receiving"
    /\ pc' # "receiving"
    /\ running = <<>>
    /\ conns[_ws.conn].state # "open"

\* C15, as stated: when the receive loop ends on a websocket that has a
\* close code and close was not called, start returns.
C15_RemoteCloseReturns ==
    [][(LoopEnds /\ conns[_ws.conn].close_code # None /\ ~_closing)
       => pc' = "returned"]_vars

\* C15, amended: when the receive loop ends on a websocket that has a close
\* code, start begins a new connect attempt; it returns when the websocket
\* has no close code, which is when the client closed it.
C15_RemoteCloseReconnects ==
    [][LoopEnds =>
          IF conns[_ws.conn].close_code # None
          THEN pc' = "connecting" /\ Len(conns') = Len(conns) + 1
          ELSE pc' = "returned" /\ conns' = conns]_vars

\* the server closed the first connection, close was not called, and start
\* is connecting again
C15_Witness ==
    /\ Len(conns) = 2
    /\ conns[1].state = "remote_closed"
    /\ conns[1].close_code # None
    /\ pc = "connecting"
    /\ ~_closing

\* C16: start is over, by returning or raising, only when close was called.
C16_TerminalOnlyAfterClose ==
    pc \in {"returned", "raised"} => _closing

\* C17: when start begins to open a connection, the connections it opened
\* before and their client sessions are not open.
C17_OneLiveConnection ==
    \A i \in 1..(Len(conns) - 1) :
        conns[i].state # "failed" =>
            /\ ~conns[i].session_open
            /\ conns[i].state \notin {"connecting", "open"}

\* the parse_ method for the type of a frame, if there is one
HandlerOf(frame) ==
    IF "type" \notin DOMAIN frame \/ lookup[frame.type] = None THEN {}
    ELSE {lookup[frame.type].value}
\* _received_message of a frame returns or raises in this step
Handles == Len(handled') = Len(handled) + 1

\* C18: a frame whose type has no handler, or that has no type, changes no
\* cache state, has no event dispatched and raises nothing: the receive
\* loop goes on.
C18_UnknownFrameDropped ==
    [][(Handles /\ HandlerOf(Last(handled').frame) = {})
       => /\ cache' = cache
          /\ dispatched' = dispatched
          /\ Last(handled').raised = NoException
          /\ pc' = "receiving"
          /\ start_raised' = NoException]_vars

\* the handler of the frame raises, when called with the cache as it is
HandlerRaises(frame) ==
    /\ HandlerOf(frame) # {}
    /\ func(CHOOSE p \in HandlerOf(frame) : TRUE, cache, has_cache, frame).raised
          # NoException

\* C19: when the handler of a known event raises, the exception is logged
\* and does not leave consume_raw_event, no event reaches the subscribers,
\* and the receive loop goes on on the same connection.
C19_HandlerExceptionCaught ==
    [][(Handles /\ HandlerRaises(Last(handled').frame))
       => /\ Last(handled').logged \notin {NoException, "Unknown event"}
          /\ Last(handled').raised = NoException
          /\ SelectSeq(dispatched', IsDomainEvent) = SelectSeq(dispatched, IsDomainEvent)
          /\ pc' = "receiving"
          /\ start_raised' = NoException
          /\ _ws' = _ws
          /\ conns' = conns]_vars

\* a handler raised KeyError and the frame after it was handled on the same
\* connection
C19_Witness ==
    /\ Len(handled) = 2
    /\ handled[1].logged = "KeyError"
    /\ handled[2].logged = NoException
    /\ Len(conns) = 1
    /\ pc = "receiving"

ControlOps == {"begin_typing", "stop_typing", "ping"}
\* the application calls begin_typing, stop_typing or ping in this step
ControlStep ==
    /\ call'.op \in ControlOps
    /\ \/ call' # call
       \/ ret' # ret
       \/ SelectSeq(sent', IsControl) # SelectSeq(sent, IsControl)
\* no connection is live: before the first connect, after a disconnect, and
\* after close
NotConnected ==
    \/ _ws = None
    \/ conns[_ws.conn].state # "open"

\* C20: called while no connection is live, begin_typing, stop_typing and
\* ping raise and send nothing.
C20_SendFailsWhenNotConnected ==
    [][(ControlStep /\ NotConnected)
       => /\ ret'.raised # NoException
          /\ sent' = sent]_vars

----------------------------------------------------------------------------
(* Properties of the REST client, under SpecRest.  A call of rest_calls is *)
(* a call of _request whose route answers the responses of its args.       *)

Requests == {rest_calls[i] : i \in {j \in DOMAIN rest_calls : rest_calls[j].op = "_request"}}

\* C21: with max_retries = 3, a request whose route answers 500, 500, 500
\* and then 200 returns after 4 HTTP calls and 3 backoff sleeps.
C21_RetriesUntilSuccess ==
    \A c \in Requests :
        c.args.responses = <<500, 500, 500, 200>>
        => /\ c.raised = NoException
           /\ c.requested = <<500, 500, 500, 200>>
           /\ Len(c.slept) = max_retries

\* C22: an authenticated request whose route answers 401 twice acquires a
\* token again once (two tokens with the first), retries once and raises
\* UnauthorizedError; where the second answer is 200, it returns.
C22_OneRefreshOneRetry ==
    \A c \in Requests :
        /\ (~c.args.no_auth /\ c.args.responses = <<401, 401>>)
           => /\ c.raised = "UnauthorizedError"
              /\ c.requested = <<401, 401>>
              /\ Len(c.acquired) = 2
        /\ (~c.args.no_auth /\ c.args.responses = <<401, 200>>)
           => /\ c.raised = NoException
              /\ c.requested = <<401, 200>>
              /\ Len(c.acquired) = 2

\* the classes of errors.py an HTTP status is turned into
HTTPResponseErrors ==
    {"BadRequestError", "UnauthorizedError", "ForbiddenError", "NotFoundError",
     "RateLimitedError", "InternalServerError"}

\* C25: a request returns only when the last response it received is a 2xx
\* one, and a request whose route ends with a response that is not raises
\* one of the HTTP errors.
C25_TerminalErrorRaised ==
    \A c \in Requests :
        /\ c.raised = NoException
           => /\ c.requested # <<>>
              /\ c.requested[Len(c.requested)] \in 200..299
        /\ c.args.responses \in {<<404>>, <<500, 500, 500, 500>>, <<401, 401>>}
           => c.raised \in HTTPResponseErrors

----------------------------------------------------------------------------
(* Properties of the views and of clear, under SpecViews *)

C28_ViewIsSnapshot == \A i \in DOMAIN views : views[i].items = views[i].returned

----------------------------------------------------------------------------
(* Properties of the handler lookup, under SpecLookup *)

\* the event kinds the specification of the wire protocol lists
ListedKinds == WireTypes \ {"Pong"}
\* the replies of the handshake, which _wait_for_auth reads
HandshakeKinds == {"Authenticated", "Error"}

ConvertedAsStated ==
    \A i \in DOMAIN lookups :
        /\ lookups[i].type = "ServerMemberJoin"
           => lookups[i].name = Chars["server_member_join"]
        /\ lookups[i].type = "Ready" => lookups[i].name = Chars["ready"]
        /\ \A j \in DOMAIN lookups :
              lookups[i].type = lookups[j].type => lookups[i] = lookups[j]

\* C29, as stated: the lookup depends on the event-type string only,
\* "ServerMemberJoin" becomes "server_member_join" and "Ready" becomes
\* "ready", and every listed event kind has a handler, the parse_ method of
\* its converted name.
C29_EveryKindResolves ==
    /\ ConvertedAsStated
    /\ \A i \in DOMAIN lookups :
          lookups[i].type \in ListedKinds
          => /\ lookups[i].func # None
             /\ Chars[lookups[i].func.value] = lookups[i].name

\* C29, amended: the same, for every listed event kind but Authenticated
\* and Error; these two have no parse_ method, and the lookup finds none.
C29_EveryEventKindResolves ==
    /\ ConvertedAsStated
    /\ \A i \in DOMAIN lookups :
          /\ lookups[i].type \in ListedKinds \ HandshakeKinds
             => /\ lookups[i].func # None
                /\ Chars[lookups[i].func.value] = lookups[i].name
          /\ lookups[i].type \in HandshakeKinds => lookups[i].func = None

\* a kind of three words and a reply of the handshake were looked up
C29_Witness ==
    /\ Len(lookups) = 2
    /\ lookups[1].type = "ServerMemberJoin"
    /\ lookups[1].func = [kind |-> "str", value |-> "server_member_join"]
    /\ lookups[2].type = "Error"

----------------------------------------------------------------------------
(* Properties of the handshake, under SpecHandshake *)

\* C30: the receive loop hands a frame to _received_message only when
\* _authenticate has returned on the connection, which it does in the step
\* that reads Authenticated; and no frame _wait_for_auth read is handed on.
C30_NothingForwardedBeforeHandshake ==
    /\ [][/\ started' # started => pc = "receiving"
          /\ (pc # "receiving" /\ pc' = "receiving")
             => /\ pc = "authenticating"
                /\ Len(auth_events') = Len(auth_events) + 1
                /\ auth_events'[Len(auth_events')].frame = [type |-> "Authenticated"]]_vars
    /\ [](\A i \in DOMAIN auth_events :
             \A j \in DOMAIN started : auth_events[i].n # started[j])

\* a Message frame was read before Authenticated and dropped: the handshake
\* is over and nothing was dispatched
C30_Witness ==
    /\ Len(auth_events) = 2
    /\ auth_events[1].frame = [type |-> "Message", _id |-> "m1", content |-> "n1"]
    /\ auth_events[2].frame = [type |-> "Authenticated"]
    /\ pc = "receiving"
    /\ started = <<>> /\ dispatched = <<>>

----------------------------------------------------------------------------
(* Properties of the handlers of update, delete, typing and ack events,    *)
(* under SpecUpdates.                                                      *)

\* the events dispatched to subscribers in this step, without the raw_ ones
Emitted(before, after) ==
    SelectSeq(SubSeq(after, Len(before) + 1, Len(after)), IsDomainEvent)

\* C31: with a cache, when a MessageDelete frame for a cached message is
\* handled, the message is no longer cached afterwards and a message_delete
\* event carrying the removed message is dispatched.
C31_MessageDeleteRemoves ==
    [][(/\ Handles
        /\ has_cache
        /\ Last(handled').frame.type = "MessageDelete"
        /\ get_message(cache, Last(handled').frame.id) # None)
       => /\ get_message(cache', Last(handled').frame.id) = None
          /\ \E i \in DOMAIN Emitted(dispatched, dispatched') :
                /\ Emitted(dispatched, dispatched')[i].name = "message_delete"
                /\ Emitted(dispatched, dispatched')[i].args
                      = <<get_message(cache, Last(handled').frame.id)>>]_vars

\* the channel_type values parse_ready has a branch for
ChannelTypes == {"SavedMessage", "DirectMessage", "Group", "TextChannel", "VoiceChannel"}

\* C32: with a cache, when a Ready frame with a channel of an unrecognized
\* channel_type is handled, nothing is logged as an exception, the cache
\* entry of that channel's id is as it was, every channel of a recognized
\* type is cached, and the ready event is dispatched.
C32_UnknownChannelSkipped ==
    [][(/\ Handles
        /\ has_cache
        /\ Last(handled').frame.type = "Ready"
        /\ \E i \in DOMAIN Last(handled').frame.channels :
               Last(handled').frame.channels[i].channel_type \notin ChannelTypes)
       => LET channels == Last(handled').frame.channels
          IN  /\ Last(handled').logged = NoException
              /\ \A i \in DOMAIN channels :
                    IF channels[i].channel_type \in ChannelTypes
                    THEN get_channel(cache', channels[i]._id) # None
                    ELSE get_channel(cache', channels[i]._id)
                            = get_channel(cache, channels[i]._id)
              /\ \E i \in DOMAIN Emitted(dispatched, dispatched') :
                    Emitted(dispatched, dispatched')[i].name = "ready"]_vars

\* C33: with a cache, when a UserUpdate frame for a cached user is handled,
\* a user_update event is dispatched whose first argument is the user as
\* cached before the frame (status text included) and whose second is the
\* user as cached after it.
C33_UserUpdateOldAndNew ==
    [][(/\ Handles
        /\ has_cache
        /\ Last(handled').frame.type = "UserUpdate"
        /\ get_user(cache, Last(handled').frame.id) # None)
       => \E i \in DOMAIN Emitted(dispatched, dispatched') :
             /\ Emitted(dispatched, dispatched')[i].name = "user_update"
             /\ Emitted(dispatched, dispatched')[i].args
                   = <<get_user(cache, Last(handled').frame.id),
                       get_user(cache', Last(handled').frame.id)>>]_vars

\* C34: without a cache, when the handler of a frame of a known type
\* returns without an exception, it dispatched an event to the subscribers
\* and left the cache alone.
C34_EmitsWithoutCache ==
    [][(/\ Handles
        /\ ~has_cache
        /\ HandlerOf(Last(handled').frame) # {}
        /\ Last(handled').logged = NoException
        /\ Last(handled').raised = NoException)
       => /\ Emitted(dispatched, dispatched') # <<>>
          /\ cache' = cache]_vars

\* C35: with a cache, when a ChannelStopTyping frame is handled, an event
\* named channel_stop_typing is dispatched with the channel and the user the
\* frame names, and no event named channel_start_typing.
C35_StopTypingDistinct ==
    [][(/\ Handles
        /\ has_cache
        /\ Last(handled').frame.type = "ChannelStopTyping")
       => LET emitted == Emitted(dispatched, dispatched')
              frame == Last(handled').frame
          IN  /\ \E i \in DOMAIN emitted :
                    /\ emitted[i].name = "channel_stop_typing"
                    /\ emitted[i].args
                          = <<get_channel(cache, frame.id), get_user(cache, frame.user)>>
              /\ \A i \in DOMAIN emitted : emitted[i].name # "channel_start_typing"]_vars

----------------------------------------------------------------------------
(* Properties of a successful response and of the life cycle of the REST   *)
(* client, under SpecRest.                                                 *)

\* C36: a request whose route answers 204 returns None after that one HTTP
\* call; one whose route answers 200 with a JSON body returns the decoded
\* body; one whose route answers 200 with another content type raises
\* HTTPError after that one HTTP call.
C36_SuccessHandling ==
    \A c \in Requests :
        /\ c.args.responses = <<204>>
           => (c.raised = NoException /\ c.value = None /\ c.requested = <<204>>)
        /\ (c.args.responses = <<200>> /\ c.args.content_type = "application/json")
           => (c.raised = NoException /\ c.value # None /\ c.requested = <<200>>)
        /\ (c.args.responses = <<200>> /\ c.args.content_type # "application/json")
           => (c.raised = "HTTPError" /\ c.requested = <<200>>)

\* before call i a call of start returned and no call of close came after it
Alive(i) ==
    \E j \in 1..(i - 1) :
        /\ rest_calls[j].op = "start"
        /\ rest_calls[j].raised = NoException
        /\ \A k \in (j + 1)..(i - 1) : rest_calls[k].op # "close"

\* C38: start on a client that is alive raises RuntimeError, _request on a
\* client that was never started or was closed raises RuntimeError, and
\* is_alive is true exactly from a start that returned to the next close.
C38_Lifecycle ==
    \A i \in DOMAIN rest_calls :
        /\ (rest_calls[i].op = "start" /\ Alive(i)) => rest_calls[i].raised = "RuntimeError"
        /\ (rest_calls[i].op = "_request" /\ ~Alive(i))
           => rest_calls[i].raised = "RuntimeError"
        /\ rest_calls[i].op = "is_alive"
           => (rest_calls[i].raised = NoException /\ rest_calls[i].value = Bool(Alive(i)))

----------------------------------------------------------------------------
(* Properties of the attribute authenticated, under SpecGateway *)

\* C37: authenticated is true only while start is in the receive loop of a
\* connection whose handshake succeeded: it is not true while start waits
\* to reconnect, connects or authenticates again, nor after start ended.
C37_AuthenticatedOnlyWhileConnected ==
    authenticated = "True" => pc = "receiving"

----------------------------------------------------------------------------
(* Properties of the event manager under SpecEvents and of the mutators    *)
(* of the cache under SpecCache.                                           *)

\* C39: when the handler of a frame raises and the exception is logged, the
\* cache is as it was before the frame.
C39_FailedEventLeavesCache ==
    [][(Handles /\ Last(handled').logged \notin {NoException, "Unknown event"})
       => cache' = cache]_vars

Collections == {"me", "users", "channels", "servers", "members", "messages"}
\* the collection a mutator is named after
Own(op) ==
    CASE op \in {"clear_me", "set_me", "update_me"} -> "me"
      [] op \in {"clear_users", "delete_user", "set_user", "update_user"} -> "users"
      [] op \in {"clear_channels", "delete_channel", "set_channel", "update_channel"}
            -> "channels"
      [] op \in {"clear_servers", "delete_server", "set_server", "update_server"}
            -> "servers"
      [] op \in {"clear_members", "delete_member", "set_member", "update_member"}
            -> "members"
      [] op \in {"clear_messages", "delete_message", "set_message", "update_message"}
            -> "messages"
DeleteOps ==
    {"delete_user", "delete_channel", "delete_server", "delete_member", "delete_message"}
\* the set_, update_ and delete_ methods of the five keyed collections
KeyedOps ==
    DeleteOps \cup {"set_user", "update_user", "set_channel", "update_channel",
                    "set_server", "update_server", "set_member", "update_member",
                    "set_message", "update_message"}

\* C40: a call of a mutator other than clear() leaves every collection but
\* its own as it was, and a call of a set_, update_ or delete_ method leaves
\* every entry of its own collection but the one of the identity given as
\* it was, whether the call returns or raises.
C40_MutatorFrame ==
    [][call'.op # "clear"
       => /\ \A k \in Collections \ {Own(call'.op)} : cache'[k] = cache[k]
          /\ call'.op \in KeyedOps
             => LET own == Own(call'.op)
                    identity == IF call'.op \in DeleteOps THEN call'.arg
                                ELSE Object(call'.arg)
                IN  \A id \in (DOMAIN cache[own] \cup DOMAIN cache'[own]) \ {identity} :
                       Get(cache'[own], id) = Get(cache[own], id)]_vars

\* delete_message removed a message and left another message and a user
\* in the cache
C40_Witness ==
    /\ call.op = "delete_message"
    /\ ret.value # None
    /\ call.arg \notin DOMAIN get_messages_view(cache)
    /\ get_messages_view(cache) # EmptyDict
    /\ get_users_view(cache) # EmptyDict

====
